---- MODULE Spec2Model ----
(***************************************************************************)
(* Model of the generated GraphQL result and variables types of            *)
(*   sensors/types/SensorMutations.types.ts                                *)
(*   nav/types/LatestRunTag.types.ts                                       *)
(* The files declare types only.  Each declared type is modelled as the    *)
(* predicate that decides whether a concrete (JSON-like) value written     *)
(* against the declaration is accepted: every declared property that is    *)
(* not marked optional is present, every present property has its declared *)
(* type, and no property outside the declaration of the member selected by *)
(* the __typename discriminant is present (the known-properties check of   *)
(* an object literal).  A value is checked by one action per exported      *)
(* type.                                                                   *)
(***************************************************************************)
EXTENDS Integers, Sequences, FiniteSets, TLC

(* ------------------------------------------------------------------ *)
(* Bounds of the value universe                                         *)
(* ------------------------------------------------------------------ *)
MaxChain == 2      \* longest errorChain array drawn
MaxStack == 1      \* longest stack array drawn
MaxResults == 2    \* longest results array drawn
MaxTime == 1       \* timestamps are drawn from 0..MaxTime

(* ------------------------------------------------------------------ *)
(* Runtime values: every value carries its runtime type in field t.     *)
(* An object is a function from the names of the properties that are    *)
(* present to their values; an omitted property is not in the domain.   *)
(* ------------------------------------------------------------------ *)
Null == [t |-> "null"]
Str(s) == [t |-> "string", v |-> s]
Num(n) == [t |-> "number", v |-> n]
Bool(b) == [t |-> "boolean", v |-> b]
Arr(q) == [t |-> "array", v |-> q]
Obj(f) == [t |-> "object", v |-> f]

IsNull(x) == x.t = "null"
IsString(x) == x.t = "string"
IsNumber(x) == x.t = "number"
IsBoolean(x) == x.t = "boolean"
IsArray(x) == x.t = "array"
IsObject(x) == x.t = "object"

Props(x) == DOMAIN x.v
Has(x, k) == IsObject(x) /\ k \in Props(x)
Get(x, k) == x.v[k]

\* string literal type 'lit'
IsLiteral(x, lit) == IsString(x) /\ x.v = lit

\* the elements of an array (Array<T> asks every one of them to be a T)
Elems(x) == {x.v[i] : i \in 1..Len(x.v)}
\* Array<string>
IsArrayOfString(x) == IsArray(x) /\ \A e \in Elems(x) : IsString(e)

\* object type with the given non-optional and optional property names
HasShape(x, required, optional) ==
    /\ IsObject(x)
    /\ required \subseteq Props(x)
    /\ Props(x) \subseteq (required \cup optional)

(* ------------------------------------------------------------------ *)
(* Types imported from '../../graphql/types'                            *)
(* ------------------------------------------------------------------ *)
InstigationStatusValues == {"RUNNING", "STOPPED"}
RunStatusValues == {"STARTED", "SUCCESS", "FAILURE"}

InstigationStatus(x) == IsString(x) /\ x.v \in InstigationStatusValues
RunStatus(x) == IsString(x) /\ x.v \in RunStatusValues
ScalarsString(x) == IsString(x)
\* a sensor selector is a composite key: an object of string components
SensorSelector(x) == IsObject(x) /\ Props(x) # {} /\ \A k \in Props(x) : IsString(Get(x, k))
RunsFilter(x) == IsObject(x)
\* InputMaybe<T> = T | null
InputMaybe(x, isT) == IsNull(x) \/ isT

(* ------------------------------------------------------------------ *)
(* SensorMutations.types.ts                                             *)
(* ------------------------------------------------------------------ *)
\* {__typename: 'PythonError'; message: string; stack: Array<string>}   (line 19)
StartSensor_ChainError(x) ==
    /\ HasShape(x, {"__typename", "message", "stack"}, {})
    /\ IsLiteral(Get(x, "__typename"), "PythonError")
    /\ IsString(Get(x, "message"))
    /\ IsArrayOfString(Get(x, "stack"))

\* element type of errorChain (lines 16-20)
StartSensor_ErrorChainLink(x) ==
    /\ HasShape(x, {"__typename", "isExplicitLink", "error"}, {})
    /\ IsLiteral(Get(x, "__typename"), "ErrorChainLink")
    /\ IsBoolean(Get(x, "isExplicitLink"))
    /\ StartSensor_ChainError(Get(x, "error"))

StartSensor_PythonError(x) ==
    /\ HasShape(x, {"__typename", "message", "stack", "errorChain"}, {})
    /\ IsLiteral(Get(x, "__typename"), "PythonError")
    /\ IsString(Get(x, "message"))
    /\ IsArrayOfString(Get(x, "stack"))
    /\ IsArray(Get(x, "errorChain"))
    /\ \A e \in Elems(Get(x, "errorChain")) : StartSensor_ErrorChainLink(e)

\* mutant: sensorState declared nullable, as instigationState of the stop result is
StartSensor_SensorState_Nullable(x) ==
    \/ IsNull(x)
    \/ /\ HasShape(x, {"__typename", "id", "status"}, {})
       /\ IsLiteral(Get(x, "__typename"), "InstigationState")
       /\ IsString(Get(x, "id"))
       /\ InstigationStatus(Get(x, "status"))

\* sensorState: {__typename: 'InstigationState'; id: string; status: Types.InstigationStatus}
StartSensor_SensorState(x) ==
    /\ HasShape(x, {"__typename", "id", "status"}, {})
    /\ IsLiteral(Get(x, "__typename"), "InstigationState")
    /\ IsString(Get(x, "id"))
    /\ InstigationStatus(Get(x, "status"))

\* mutant: the Sensor member also lets the stop result's instigationState through
StartSensor_Sensor_Tolerant(x) ==
    /\ HasShape(x, {"__typename", "id", "sensorState"}, {"instigationState"})
    /\ IsLiteral(Get(x, "__typename"), "Sensor")
    /\ IsString(Get(x, "id"))
    /\ StartSensor_SensorState(Get(x, "sensorState"))

StartSensor_Sensor(x) ==
    /\ HasShape(x, {"__typename", "id", "sensorState"}, {})
    /\ IsLiteral(Get(x, "__typename"), "Sensor")
    /\ IsString(Get(x, "id"))
    /\ StartSensor_SensorState(Get(x, "sensorState"))

StartSensor_SensorNotFoundError(x) ==
    /\ HasShape(x, {"__typename"}, {})
    /\ IsLiteral(Get(x, "__typename"), "SensorNotFoundError")

StartSensor_UnauthorizedError(x) ==
    /\ HasShape(x, {"__typename"}, {})
    /\ IsLiteral(Get(x, "__typename"), "UnauthorizedError")

\* mutant: the not-found member is missing from the union
startSensor_NoNotFound(x) ==
    \/ StartSensor_PythonError(x)
    \/ StartSensor_Sensor(x)
    \/ StartSensor_UnauthorizedError(x)

\* the union type of StartSensorMutation.startSensor
startSensor(x) ==
    \/ StartSensor_PythonError(x)
    \/ StartSensor_Sensor(x)
    \/ StartSensor_SensorNotFoundError(x)
    \/ StartSensor_UnauthorizedError(x)

StartSensorMutationType(x) ==
    /\ HasShape(x, {"__typename", "startSensor"}, {})
    /\ IsLiteral(Get(x, "__typename"), "DagitMutation")
    /\ startSensor(Get(x, "startSensor"))

StartSensorMutationVariablesType(x) ==
    /\ HasShape(x, {"sensorSelector"}, {})
    /\ SensorSelector(Get(x, "sensorSelector"))

StopSensor_ChainError(x) ==
    /\ HasShape(x, {"__typename", "message", "stack"}, {})
    /\ IsLiteral(Get(x, "__typename"), "PythonError")
    /\ IsString(Get(x, "message"))
    /\ IsArrayOfString(Get(x, "stack"))

\* mutant: isExplicitLink declared optional
StopSensor_ErrorChainLink_OptionalFlag(x) ==
    /\ HasShape(x, {"__typename", "error"}, {"isExplicitLink"})
    /\ IsLiteral(Get(x, "__typename"), "ErrorChainLink")
    /\ Has(x, "isExplicitLink") => IsBoolean(Get(x, "isExplicitLink"))
    /\ StopSensor_ChainError(Get(x, "error"))

StopSensor_ErrorChainLink(x) ==
    /\ HasShape(x, {"__typename", "isExplicitLink", "error"}, {})
    /\ IsLiteral(Get(x, "__typename"), "ErrorChainLink")
    /\ IsBoolean(Get(x, "isExplicitLink"))
    /\ StopSensor_ChainError(Get(x, "error"))

StopSensor_PythonError(x) ==
    /\ HasShape(x, {"__typename", "message", "stack", "errorChain"}, {})
    /\ IsLiteral(Get(x, "__typename"), "PythonError")
    /\ IsString(Get(x, "message"))
    /\ IsArrayOfString(Get(x, "stack"))
    /\ IsArray(Get(x, "errorChain"))
    /\ \A e \in Elems(Get(x, "errorChain")) : StopSensor_ErrorChainLink(e)

\* instigationState: {__typename: 'InstigationState'; id; status} | null
StopSensor_InstigationState(x) ==
    \/ IsNull(x)
    \/ /\ HasShape(x, {"__typename", "id", "status"}, {})
       /\ IsLiteral(Get(x, "__typename"), "InstigationState")
       /\ IsString(Get(x, "id"))
       /\ InstigationStatus(Get(x, "status"))

\* mutant: instigationState declared optional instead of nullable
StopSensor_StopSensorMutationResult_Optional(x) ==
    /\ HasShape(x, {"__typename"}, {"instigationState"})
    /\ IsLiteral(Get(x, "__typename"), "StopSensorMutationResult")
    /\ Has(x, "instigationState") => StopSensor_InstigationState(Get(x, "instigationState"))

StopSensor_StopSensorMutationResult(x) ==
    /\ HasShape(x, {"__typename", "instigationState"}, {})
    /\ IsLiteral(Get(x, "__typename"), "StopSensorMutationResult")
    /\ StopSensor_InstigationState(Get(x, "instigationState"))

\* mutant: the unauthorized member lets instigationState through
StopSensor_UnauthorizedError_Tolerant(x) ==
    /\ HasShape(x, {"__typename"}, {"instigationState"})
    /\ IsLiteral(Get(x, "__typename"), "UnauthorizedError")

StopSensor_UnauthorizedError(x) ==
    /\ HasShape(x, {"__typename"}, {})
    /\ IsLiteral(Get(x, "__typename"), "UnauthorizedError")

\* mutant: the stop union has the start union's not-found member
stopSensor_WithNotFound(x) ==
    \/ StopSensor_PythonError(x)
    \/ StopSensor_StopSensorMutationResult(x)
    \/ StartSensor_SensorNotFoundError(x)
    \/ StopSensor_UnauthorizedError(x)

\* the union type of StopRunningSensorMutation.stopSensor
stopSensor(x) ==
    \/ StopSensor_PythonError(x)
    \/ StopSensor_StopSensorMutationResult(x)
    \/ StopSensor_UnauthorizedError(x)

StopRunningSensorMutationType(x) ==
    /\ HasShape(x, {"__typename", "stopSensor"}, {})
    /\ IsLiteral(Get(x, "__typename"), "DagitMutation")
    /\ stopSensor(Get(x, "stopSensor"))

StopRunningSensorMutationVariablesType(x) ==
    /\ HasShape(x, {"jobOriginId", "jobSelectorId"}, {})
    /\ ScalarsString(Get(x, "jobOriginId"))
    /\ ScalarsString(Get(x, "jobSelectorId"))

(* ------------------------------------------------------------------ *)
(* LatestRunTag.types.ts                                                *)
(* ------------------------------------------------------------------ *)
\* number | null
NumberOrNull(x) == IsNumber(x) \/ IsNull(x)

\* element type of Runs.results (lines 16-24)
Runs_Run(x) ==
    /\ HasShape(x, {"__typename", "id", "status", "runId",
                    "startTime", "endTime", "updateTime"}, {})
    /\ IsLiteral(Get(x, "__typename"), "Run")
    /\ IsString(Get(x, "id"))
    /\ RunStatus(Get(x, "status"))
    /\ IsString(Get(x, "runId"))
    /\ NumberOrNull(Get(x, "startTime"))
    /\ NumberOrNull(Get(x, "endTime"))
    /\ NumberOrNull(Get(x, "updateTime"))

Runs_InvalidPipelineRunsFilterError(x) ==
    /\ HasShape(x, {"__typename"}, {})
    /\ IsLiteral(Get(x, "__typename"), "InvalidPipelineRunsFilterError")

\* mutant: the query's PythonError selects the fields of the mutations' PythonError
Runs_PythonError_Full(x) ==
    /\ HasShape(x, {"__typename", "message", "stack", "errorChain"}, {})
    /\ IsLiteral(Get(x, "__typename"), "PythonError")
    /\ IsString(Get(x, "message"))
    /\ IsArrayOfString(Get(x, "stack"))
    /\ IsArray(Get(x, "errorChain"))

Runs_PythonError(x) ==
    /\ HasShape(x, {"__typename"}, {})
    /\ IsLiteral(Get(x, "__typename"), "PythonError")

Runs_Runs(x) ==
    /\ HasShape(x, {"__typename", "results"}, {})
    /\ IsLiteral(Get(x, "__typename"), "Runs")
    /\ IsArray(Get(x, "results"))
    /\ \A e \in Elems(Get(x, "results")) : Runs_Run(e)

\* the union type of LatestRunTagQuery.pipelineRunsOrError
pipelineRunsOrError(x) ==
    \/ Runs_InvalidPipelineRunsFilterError(x)
    \/ Runs_PythonError(x)
    \/ Runs_Runs(x)

LatestRunTagQueryType(x) ==
    /\ HasShape(x, {"__typename", "pipelineRunsOrError"}, {})
    /\ IsLiteral(Get(x, "__typename"), "DagitQuery")
    /\ pipelineRunsOrError(Get(x, "pipelineRunsOrError"))

\* mutant: runsFilter declared without the optional mark
LatestRunTagQueryVariablesType_Required(x) ==
    /\ HasShape(x, {"runsFilter"}, {})
    /\ InputMaybe(Get(x, "runsFilter"), RunsFilter(Get(x, "runsFilter")))

\* runsFilter?: Types.InputMaybe<Types.RunsFilter>
LatestRunTagQueryVariablesType(x) ==
    /\ HasShape(x, {}, {"runsFilter"})
    /\ Has(x, "runsFilter") => InputMaybe(Get(x, "runsFilter"), RunsFilter(Get(x, "runsFilter")))

(* ------------------------------------------------------------------ *)
(* The values that are checked: well-formed instances of every          *)
(* declared variant together with their near misses (a property         *)
(* omitted, null, of another type, a property of another variant        *)
(* added, another tag).                                                 *)
(* ------------------------------------------------------------------ *)
Absent == [t |-> "absent"]

\* the object whose properties are the fields of r that are not Absent
Build(r) == Obj([k \in {n \in DOMAIN r : r[n] # Absent} |-> r[k]])

\* x with the property k |-> val added (x unchanged when val is Absent or k present)
With(x, k, val) ==
    IF val = Absent \/ k \in Props(x) THEN x
    ELSE Obj([n \in Props(x) \cup {k} |-> IF n = k THEN val ELSE x.v[n]])

SeqsUpTo(S, n) == UNION {[1..k -> S] : k \in 0..n}

Tags == {"PythonError", "Sensor", "SensorNotFoundError", "UnauthorizedError",
         "StopSensorMutationResult", "InvalidPipelineRunsFilterError", "Runs"}
TagOpts == {Absent} \cup {Str(tg) : tg \in Tags}

ChainErr(m, st) == Build([__typename |-> Str("PythonError"), message |-> m, stack |-> st])
Link(b, err) == Build([__typename |-> Str("ErrorChainLink"), isExplicitLink |-> b, error |-> err])
Link1 == Link(Bool(TRUE), ChainErr(Str("a"), Arr(<<>>)))
Link2 == Link(Bool(FALSE), ChainErr(Str("b"), Arr(<<Str("l")>>)))
LinkNoFlag == Link(Absent, ChainErr(Str("a"), Arr(<<>>)))
LinkFlagNull == Link(Null, ChainErr(Str("a"), Arr(<<>>)))
LinkNoStack == Link(Bool(TRUE), ChainErr(Str("a"), Absent))
LinkNullMessage == Link(Bool(TRUE), ChainErr(Null, Arr(<<>>)))
GoodLinks == {Link1, Link2}
BadLinks == {LinkNoFlag, LinkFlagNull, LinkNoStack, LinkNullMessage}

MessageOpts == {Absent, Null, Str("a")}
StackOpts == {Absent, Null} \cup {Arr(q) : q \in SeqsUpTo({Str("l"), Null}, MaxStack)}
GoodChains == {Arr(q) : q \in SeqsUpTo(GoodLinks, MaxChain)}
ChainOpts ==
    {Absent, Null} \cup GoodChains
        \cup {Arr(<<b>>) : b \in BadLinks}
        \cup {Arr(<<Link1, b>>) : b \in BadLinks}

ErrorParts ==
    {[message |-> m, stack |-> st, errorChain |-> c] :
        m \in MessageOpts, st \in StackOpts, c \in {Arr(<<>>), Arr(<<Link1>>)}}
    \cup {[message |-> Str("a"), stack |-> Arr(<<>>), errorChain |-> c] : c \in ChainOpts}

State(i, st) == Build([__typename |-> Str("InstigationState"), id |-> i, status |-> st])
StateOpts ==
    {Absent, Null, State(Str("s"), Str("RUNNING")), State(Str("s"), Str("STOPPED")),
     State(Str("s"), Null), State(Str("s"), Absent), State(Null, Str("RUNNING")),
     State(Absent, Str("RUNNING")), State(Str("s"), Str("SUCCESS"))}
IdOpts == {Absent, Null, Str("a")}

SensorParts == {[id |-> i, sensorState |-> s] : i \in IdOpts, s \in StateOpts}
StopParts == {[instigationState |-> s] : s \in StateOpts}

TimeOpts == {Absent, Null, Str("0")} \cup {Num(n) : n \in 0..MaxTime}
Run(i, st, ri, s, e, u) ==
    Build([__typename |-> Str("Run"), id |-> i, status |-> st, runId |-> ri,
           startTime |-> s, endTime |-> e, updateTime |-> u])
TimedRuns == {Run(Str("r"), Str("SUCCESS"), Str("r"), s, e, u) :
                 s \in TimeOpts, e \in TimeOpts, u \in TimeOpts}
OddRuns ==
    {Run(Absent, Str("SUCCESS"), Str("r"), Null, Null, Null),
     Run(Null, Str("SUCCESS"), Str("r"), Null, Null, Null),
     Run(Str("r"), Absent, Str("r"), Null, Null, Null),
     Run(Str("r"), Null, Str("r"), Null, Null, Null),
     Run(Str("r"), Str("RUNNING"), Str("r"), Null, Null, Null),
     Run(Str("r"), Str("STARTED"), Absent, Null, Null, Null),
     Run(Str("r"), Str("STARTED"), Null, Num(0), Num(0), Num(0))}
PairRuns ==
    {Run(Str("r"), Str("SUCCESS"), Str("r"), Num(0), Num(0), Num(0)),
     Run(Str("q"), Str("FAILURE"), Str("q"), Null, Null, Null),
     Run(Str("r"), Str("SUCCESS"), Str("r"), Absent, Null, Null)}
ResultsOpts ==
    {Absent, Null}
        \cup {Arr(q) : q \in SeqsUpTo(TimedRuns \cup OddRuns, 1)}
        \cup {Arr(q) : q \in SeqsUpTo(PairRuns, MaxResults)}
RunsParts == {[results |-> r] : r \in ResultsOpts}

NoPart == [none |-> Absent]

\* one property of another variant, or none
ExtraOpts ==
    {<<"none", Absent>>, <<"message", Str("a")>>, <<"instigationState", Null>>,
     <<"instigationState", State(Str("s"), Str("RUNNING"))>>, <<"id", Str("a")>>,
     <<"results", Arr(<<>>)>>, <<"errorChain", Arr(<<>>)>>}

Member(tg, part, extra) ==
    With(Build([n \in DOMAIN part \cup {"__typename"} |->
                   IF n = "__typename" THEN tg ELSE part[n]]),
         extra[1], extra[2])

SensorMembers ==
    {Member(tg, part, ex) : tg \in TagOpts,
        part \in ErrorParts \cup SensorParts \cup StopParts \cup {NoPart},
        ex \in ExtraOpts}
RunsMembers ==
    {Member(tg, part, ex) : tg \in TagOpts,
        part \in RunsParts \cup {NoPart}
            \cup {[message |-> Str("a"), stack |-> Arr(<<>>), errorChain |-> Arr(<<>>)]},
        ex \in ExtraOpts}

Root(tg, field, member) ==
    Obj([n \in {"__typename", field} |-> IF n = "__typename" THEN Str(tg) ELSE member])

ResultValues ==
    {Root("DagitMutation", "startSensor", m) : m \in SensorMembers}
        \cup {Root("DagitMutation", "stopSensor", m) : m \in SensorMembers}
        \cup {Root("DagitQuery", "pipelineRunsOrError", m) : m \in RunsMembers}
        \cup {Root("DagitQuery", f, Build([__typename |-> Str("UnauthorizedError")])) :
                 f \in {"startSensor", "stopSensor"}}
        \cup {Root("DagitMutation", "pipelineRunsOrError",
                   Build([__typename |-> Str("PythonError")]))}

Selector == Build([repositoryName |-> Str("r"), sensorName |-> Str("s")])
SelectorOpts == {Absent, Null, Str("s"), Selector, Build([sensorName |-> Null])}
IdentOpts == {Absent, Null, Str("j"), Num(0)}
FilterOpts == {Absent, Null, Str("f"), Build([none |-> Absent]), Build([runIds |-> Arr(<<>>)])}
VariablesValues ==
    {Build([sensorSelector |-> ss, jobOriginId |-> jo, jobSelectorId |-> js, runsFilter |-> rf]) :
        ss \in SelectorOpts, jo \in IdentOpts, js \in IdentOpts, rf \in FilterOpts}

Values == ResultValues \cup VariablesValues

(* ------------------------------------------------------------------ *)
(* Checking a value against each exported type                          *)
(* ------------------------------------------------------------------ *)
VARIABLES value, against, accepted
vars == <<value, against, accepted>>

Init ==
    /\ value \in Values
    /\ against = "none"
    /\ accepted = FALSE

Check(name, ok) ==
    /\ against = "none"
    /\ against' = name
    /\ accepted' = ok
    /\ UNCHANGED value

StartSensorMutation == Check("StartSensorMutation", StartSensorMutationType(value))
StartSensorMutationVariables ==
    Check("StartSensorMutationVariables", StartSensorMutationVariablesType(value))
StopRunningSensorMutation ==
    Check("StopRunningSensorMutation", StopRunningSensorMutationType(value))
StopRunningSensorMutationVariables ==
    Check("StopRunningSensorMutationVariables", StopRunningSensorMutationVariablesType(value))
LatestRunTagQuery == Check("LatestRunTagQuery", LatestRunTagQueryType(value))
LatestRunTagQueryVariables ==
    Check("LatestRunTagQueryVariables", LatestRunTagQueryVariablesType(value))

Next ==
    \/ StartSensorMutation
    \/ StartSensorMutationVariables
    \/ StopRunningSensorMutation
    \/ StopRunningSensorMutationVariables
    \/ LatestRunTagQuery
    \/ LatestRunTagQueryVariables

Spec == Init /\ [][Next]_vars

(* ------------------------------------------------------------------ *)
(* Reading the checked value                                            *)
(* ------------------------------------------------------------------ *)
Accepted(name) == against = name /\ accepted
Rejected(name) == against = name /\ ~accepted
Field(x, k) == IF Has(x, k) THEN x.v[k] ELSE Absent
TagOf(x) == IF IsString(Field(x, "__typename")) THEN Field(x, "__typename").v ELSE ""
Elements(x) == IF IsArray(x) THEN {x.v[i] : i \in 1..Len(x.v)} ELSE {}
Only == {"__typename"}

StartValid(x) == StartSensorMutationType(x)
StopValid(x) == StopRunningSensorMutationType(x)
QueryValid(x) == LatestRunTagQueryType(x)

StartTags == {"PythonError", "Sensor", "SensorNotFoundError", "UnauthorizedError"}
StopTags == {"PythonError", "StopSensorMutationResult", "UnauthorizedError"}
QueryTags == {"InvalidPipelineRunsFilterError", "PythonError", "Runs"}

\* every declared tag is the tag of some accepted value
StartInhabited ==
    \A tg \in StartTags : \E x \in ResultValues :
        StartValid(x) /\ TagOf(Field(x, "startSensor")) = tg
StopInhabited ==
    \A tg \in StopTags : \E x \in ResultValues :
        StopValid(x) /\ TagOf(Field(x, "stopSensor")) = tg
QueryInhabited ==
    \A tg \in QueryTags : \E x \in ResultValues :
        QueryValid(x) /\ TagOf(Field(x, "pipelineRunsOrError")) = tg

(* ------------------------------------------------------------------ *)
(* C1  Every accepted instance of the three result unions is exactly    *)
(* one declared variant: exactly one member of the union accepts it,    *)
(* its __typename is a declared tag, and the properties present are     *)
(* exactly the properties declared for that tag, never those of         *)
(* another variant.                                                     *)
(* ------------------------------------------------------------------ *)
ErrorFields == {"__typename", "message", "stack", "errorChain"}
StartFields ==
    [PythonError |-> ErrorFields, Sensor |-> {"__typename", "id", "sensorState"},
     SensorNotFoundError |-> Only, UnauthorizedError |-> Only]
StopFields ==
    [PythonError |-> ErrorFields,
     StopSensorMutationResult |-> {"__typename", "instigationState"},
     UnauthorizedError |-> Only]
QueryFields ==
    [InvalidPipelineRunsFilterError |-> Only, PythonError |-> Only,
     Runs |-> {"__typename", "results"}]

ExactlyDeclared(m, fields) ==
    /\ TagOf(m) \in DOMAIN fields
    /\ Props(m) = fields[TagOf(m)]

One(bs) == Cardinality({i \in DOMAIN bs : bs[i]}) = 1

C2_StartVariants ==
    /\ StartInhabited
    /\ Accepted("StartSensorMutation") =>
          LET m == Field(value, "startSensor") IN
          /\ TagOf(m) \in StartTags
          /\ TagOf(m) = "PythonError" =>
                /\ IsString(Field(m, "message"))
                /\ IsArray(Field(m, "stack"))
                /\ IsArray(Field(m, "errorChain"))
          /\ TagOf(m) = "Sensor" =>
                /\ IsString(Field(m, "id"))
                /\ IsObject(Field(m, "sensorState"))
          /\ TagOf(m) \in {"SensorNotFoundError", "UnauthorizedError"} => Props(m) = Only
    /\ (against = "StartSensorMutation" /\ TagOf(Field(value, "startSensor")) \notin StartTags)
          => ~accepted

C2_Witness ==
    /\ Accepted("StartSensorMutation")
    /\ TagOf(Field(value, "startSensor")) = "Sensor"

(* ------------------------------------------------------------------ *)
(* C3  The stop result has exactly the three tags PythonError,          *)
(* StopSensorMutationResult and UnauthorizedError, carrying (message,   *)
(* stack, errorChain), (instigationState) and nothing; a value tagged   *)
(* SensorNotFoundError is never an accepted stop result.                *)
(* ------------------------------------------------------------------ *)
C3_StopVariants ==
    /\ StopInhabited
    /\ Accepted("StopRunningSensorMutation") =>
          LET m == Field(value, "stopSensor") IN
          /\ TagOf(m) \in StopTags
          /\ TagOf(m) = "PythonError" =>
                /\ IsString(Field(m, "message"))
                /\ IsArray(Field(m, "stack"))
                /\ IsArray(Field(m, "errorChain"))
          /\ TagOf(m) = "StopSensorMutationResult" => Has(m, "instigationState")
          /\ TagOf(m) = "UnauthorizedError" => Props(m) = Only
    /\ (against = "StopRunningSensorMutation"
            /\ TagOf(Field(value, "stopSensor")) = "SensorNotFoundError") => ~accepted

\* the bare not-found value, valid as a start result, has been checked as a stop result
C3_Witness ==
    /\ Rejected("StopRunningSensorMutation")
    /\ Field(value, "stopSensor") = Build([__typename |-> Str("SensorNotFoundError")])

(* ------------------------------------------------------------------ *)
(* C4  The query result has exactly the three tags                      *)
(* InvalidPipelineRunsFilterError, PythonError and Runs; the first two  *)
(* carry the tag only (this PythonError has no message, stack or        *)
(* errorChain); Runs carries a results list whose every element carries *)
(* id, status, startTime, endTime and updateTime.                       *)
(* ------------------------------------------------------------------ *)
C4_QueryVariants ==
    /\ QueryInhabited
    /\ Accepted("LatestRunTagQuery") =>
          LET m == Field(value, "pipelineRunsOrError") IN
          /\ TagOf(m) \in QueryTags
          /\ TagOf(m) \in {"InvalidPipelineRunsFilterError", "PythonError"} =>
                /\ Props(m) = Only
                /\ Props(m) \cap {"message", "stack", "errorChain"} = {}
          /\ TagOf(m) = "Runs" =>
                /\ IsArray(Field(m, "results"))
                /\ \A r \in Elements(Field(m, "results")) :
                      /\ IsString(Field(r, "id"))
                      /\ IsString(Field(r, "status"))
                      /\ Field(r, "status").v \in RunStatusValues
                      /\ {"startTime", "endTime", "updateTime"} \subseteq Props(r)
    /\ (against = "LatestRunTagQuery"
            /\ TagOf(Field(value, "pipelineRunsOrError")) = "PythonError"
            /\ Has(Field(value, "pipelineRunsOrError"), "message")) => ~accepted

C4_Witness ==
    /\ Accepted("LatestRunTagQuery")
    /\ TagOf(Field(value, "pipelineRunsOrError")) = "Runs"
    /\ Len(Field(Field(value, "pipelineRunsOrError"), "results").v) = 2

Put(x, k, val) == Obj([n \in Props(x) \cup {k} |-> IF n = k THEN val ELSE x.v[n]])
Drop(x, k) == Obj([n \in Props(x) \ {k} |-> x.v[n]])
Rev(q) == [i \in 1..Len(q) |-> q[Len(q) + 1 - i]]
TimeFields == {"startTime", "endTime", "updateTime"}

\* the checked query result with element i of results replaced by r
WithRun(i, r) ==
    LET m == Field(value, "pipelineRunsOrError") IN
    Put(value, "pipelineRunsOrError",
        Put(m, "results", Arr([Field(m, "results").v EXCEPT ![i] = r])))

(* ------------------------------------------------------------------ *)
(* C6  startTime, endTime and updateTime of a run and instigationState  *)
(* of StopSensorMutationResult accept an explicit null, and null is not *)
(* omission: from any accepted instance, setting the field to null      *)
(* gives an accepted instance, omitting it gives a different value      *)
(* that is refused.                                                     *)
(* ------------------------------------------------------------------ *)
C6_NullIsNotOmission ==
    /\ (Accepted("LatestRunTagQuery") /\ TagOf(Field(value, "pipelineRunsOrError")) = "Runs") =>
          LET q == Field(Field(value, "pipelineRunsOrError"), "results").v IN
          \A i \in 1..Len(q) : \A f \in TimeFields :
             /\ QueryValid(WithRun(i, Put(q[i], f, Null)))
             /\ ~QueryValid(WithRun(i, Drop(q[i], f)))
             /\ WithRun(i, Put(q[i], f, Null)) # WithRun(i, Drop(q[i], f))
    /\ (against = "LatestRunTagQuery"
            /\ \E r \in Elements(Field(Field(value, "pipelineRunsOrError"), "results")) :
                   IsObject(r) /\ ~(TimeFields \subseteq Props(r))) => ~accepted
    /\ (Accepted("StopRunningSensorMutation")
            /\ TagOf(Field(value, "stopSensor")) = "StopSensorMutationResult") =>
          LET m == Field(value, "stopSensor") IN
          /\ StopValid(Put(value, "stopSensor", Put(m, "instigationState", Null)))
          /\ ~StopValid(Put(value, "stopSensor", Drop(m, "instigationState")))
          /\ Put(m, "instigationState", Null) # Drop(m, "instigationState")
    /\ (against = "StopRunningSensorMutation"
            /\ TagOf(Field(value, "stopSensor")) = "StopSensorMutationResult"
            /\ ~Has(Field(value, "stopSensor"), "instigationState")) => ~accepted

\* an accepted run list with an explicit null next to a number
C6_Witness ==
    /\ Accepted("LatestRunTagQuery")
    /\ \E r \in Elements(Field(Field(value, "pipelineRunsOrError"), "results")) :
          /\ IsNull(Field(r, "startTime"))
          /\ IsNumber(Field(r, "endTime"))
          /\ IsNull(Field(r, "updateTime"))

(* ------------------------------------------------------------------ *)
(* C7  Nullability is per field.                                        *)
(* ------------------------------------------------------------------ *)
\* the properties of x (at any depth) whose value is null, each with the tag of its owner
RECURSIVE NullFields(_, _)
NullFields(x, owner) ==
    IF IsObject(x) THEN
        UNION {IF IsNull(x.v[k]) THEN {<<TagOf(x), k>>} ELSE NullFields(x.v[k], TagOf(x)) :
                  k \in Props(x)}
    ELSE IF IsArray(x) THEN
        UNION {IF IsNull(x.v[i]) THEN {<<owner, "[]">>} ELSE NullFields(x.v[i], owner) :
                  i \in 1..Len(x.v)}
    ELSE {}

Nullable ==
    {<<"Run", "startTime">>, <<"Run", "endTime">>, <<"Run", "updateTime">>,
     <<"StopSensorMutationResult", "instigationState">>}
ResultTypes == {"StartSensorMutation", "StopRunningSensorMutation", "LatestRunTagQuery"}
VariablesTypes ==
    {"StartSensorMutationVariables", "StopRunningSensorMutationVariables",
     "LatestRunTagQueryVariables"}

\* each of the four nullable fields is null in some accepted result
NullableInhabited ==
    \A p \in Nullable : \E x \in ResultValues :
        (StartValid(x) \/ StopValid(x) \/ QueryValid(x)) /\ p \in NullFields(x, "")

LinkShape(l) ==
    /\ IsObject(l)
    /\ Props(l) = {"__typename", "isExplicitLink", "error"}
    /\ TagOf(l) = "ErrorChainLink"
    /\ IsBoolean(Field(l, "isExplicitLink"))
    /\ IsString(Field(Field(l, "error"), "message"))
    /\ IsArray(Field(Field(l, "error"), "stack"))
    /\ \A ln \in Elements(Field(Field(l, "error"), "stack")) : IsString(ln)

PythonErrorWith(chain) ==
    Build([__typename |-> Str("PythonError"), message |-> Str("a"), stack |-> Arr(<<>>),
           errorChain |-> chain])
EmptyChainAccepted ==
    /\ StartValid(Root("DagitMutation", "startSensor", PythonErrorWith(Arr(<<>>))))
    /\ StopValid(Root("DagitMutation", "stopSensor", PythonErrorWith(Arr(<<>>))))

ChainOf(f) == Field(Field(value, f), "errorChain")

C8_ErrorChain ==
    /\ EmptyChainAccepted
    /\ (Accepted("StartSensorMutation") /\ TagOf(Field(value, "startSensor")) = "PythonError") =>
          LET m == Field(value, "startSensor") IN
          /\ IsArray(ChainOf("startSensor"))
          /\ \A l \in Elements(ChainOf("startSensor")) : LinkShape(l)
          /\ StartValid(Put(value, "startSensor",
                            Put(m, "errorChain", Arr(Rev(ChainOf("startSensor").v)))))
          /\ StopValid(Root("DagitMutation", "stopSensor", m))
    /\ (Accepted("StopRunningSensorMutation") /\ TagOf(Field(value, "stopSensor")) = "PythonError") =>
          LET m == Field(value, "stopSensor") IN
          /\ IsArray(ChainOf("stopSensor"))
          /\ \A l \in Elements(ChainOf("stopSensor")) : LinkShape(l)
          /\ StopValid(Put(value, "stopSensor",
                           Put(m, "errorChain", Arr(Rev(ChainOf("stopSensor").v)))))
          /\ StartValid(Root("DagitMutation", "startSensor", m))
    /\ against \in {"StartSensorMutation", "StopRunningSensorMutation"} =>
          \A f \in {"startSensor", "stopSensor"} : \A l \in Elements(ChainOf(f)) :
             /\ StartSensor_ErrorChainLink(l) <=> StopSensor_ErrorChainLink(l)
             /\ StartSensor_ErrorChainLink(l) <=> LinkShape(l)

\* an accepted stop failure whose chain holds two different links
C8_Witness ==
    /\ Accepted("StopRunningSensorMutation")
    /\ TagOf(Field(value, "stopSensor")) = "PythonError"
    /\ Len(ChainOf("stopSensor").v) = 2
    /\ ChainOf("stopSensor").v[1] # ChainOf("stopSensor").v[2]
    /\ Rev(ChainOf("stopSensor").v) # ChainOf("stopSensor").v

====
